---- MODULE Spec2Model ----
(***************************************************************************)
(* Model of arduino/typewriter/typewriter.ino: a 20-switch scanner that    *)
(* writes one letter to the serial port per idle->pressed edge.            *)
(***************************************************************************)
EXTENDS Integers, Sequences, FiniteSets

\* ---------------------------------------------------------------- bounds
\* Number of pin level changes the environment makes after power-on.
MaxToggles == 2
\* Number of switches the operator touches: the first MaxSwitchesUsed - 1
\* table positions and the last one. The other switches stay released.
MaxSwitchesUsed == 2

\* ------------------------------------------------------------- constants
numSwitches == 20
HIGH == 1
LOW == 0
\* No level: a local variable out of scope, or a pin never sampled.
NoLevel == 2
\* Analog pin numbers as digital pins (ATmega328 boards: A0 = 14 .. A5 = 19).
A0 == 14
A1 == 15
A2 == 16
A3 == 17
A4 == 18
A5 == 19

\* Table positions 0 .. numSwitches-1 (C arrays are 0-based).
Channels == 0 .. (numSwitches - 1)

switchPinsTable ==
  <<0, 1, 2, 3, 4, 5, 6, 7, 8, 9,
    10, 11, 12, 13, A5, A4, A3, A2, A1, A0>>

\* Variant: the analog pins listed A0 .. A5 instead of A5 .. A0.
switchPins_AnalogAscending(k) ==
  <<0, 1, 2, 3, 4, 5, 6, 7, 8, 9,
    10, 11, 12, 13, A0, A1, A2, A3, A4, A5>>[k + 1]

\* switchPins[k], k 0-based
switchPins(k) == switchPinsTable[k + 1]

\* ASCII codes of 'a','w','s','e','d','c','r','f','t','g',
\*                'b','h','n','m','j','i','k','o','l','p'
lettersTable ==
  <<97, 119, 115, 101, 100, 99, 114, 102, 116, 103,
    98, 104, 110, 109, 106, 105, 107, 111, 108, 112>>

\* letters[k], k 0-based
letters(k) == lettersTable[k + 1]

\* "Switch detection active." followed by the "\r\n" that println appends.
ReadyMessage ==
  <<83, 119, 105, 116, 99, 104, 32, 100, 101, 116, 101, 99, 116, 105, 111,
    110, 32, 97, 99, 116, 105, 118, 101, 46, 13, 10>>

BaudRate == 9600

\* Hardware pin numbers 0 .. 19 of the board.
PinNumbers == 0 .. 19

VARIABLES
  pc,          \* "begin", "setup", "scan", "delay": position of the sketch
  i,           \* loop index of the for loop being executed
  state,       \* local of loop(): the level read in the current iteration
  prevStates,  \* prevStates[k], k in Channels
  baud,        \* rate given to Serial.begin, 0 before
  serial,      \* bytes written to Serial so far
  pins,        \* electrical level of every hardware pin (environment)
  toggles,     \* number of level changes made by the environment
  \* History of the run, written but never read by the sketch:
  reads,       \* reads[k]: the levels the last two scans of k read, oldest first
  fired,       \* fired[k]: for each of these scans, whether it wrote a byte
  runEmits,    \* runEmits[k]: bytes written for k since k was last read HIGH (0, 1, 2+)
  edges,       \* number of times the if branch of loop() was taken
  cycleOut,    \* table positions written in the current call of loop()
  lateDown,    \* lateDown[p]: pin p is down since a moment inside a delay()
  together,    \* <<a, b>>: a, b went down at the same instant in this cycle
  dropped,     \* channels whose byte of their latest scan the link dropped
  sampled,     \* sampled[k]: HIGH -> LOW changes in the levels read for k
  presses,     \* presses[p]: times the switch on pin p was pressed since power-on
  heldAtPowerOn  \* pins whose switch was held down at power-on

prog == <<pc, i, state, prevStates, baud, serial>>
env == <<pins, toggles>>
hist == <<reads, fired, runEmits, edges, cycleOut, lateDown, together,
          dropped, sampled, presses, heldAtPowerOn>>
vars == <<prog, env, hist>>

\* ------------------------------------------------------------ operations
\* digitalRead(pin)
digitalRead(pin) == pins[pin]

\* Variants of the if condition: level-triggered, any change, wrong level.
IsPressEdge_Level(st, prev) == st = LOW
IsPressEdge_AnyChange(st, prev) == st # prev
IsPressEdge_PrevLow(st, prev) == st = LOW /\ prev = LOW

\* The condition of the if statement in loop().
IsPressEdge(st, prev) == st = LOW /\ prev = HIGH

\* Variant: Serial.println(c) in place of Serial.print(c).
SerialPrint_Println(out, c) == Append(Append(Append(out, c), 13), 10)

\* Serial.print(c): one byte, no terminator.
SerialPrint(out, c) == Append(out, c)

\* Serial.println(msg): the bytes of msg, then "\r\n" (part of ReadyMessage).
SerialPrintln(out, msg) == out \o msg

\* Variant: the loops stop one channel early.
LoopCond_OffByOne(k) == k < numSwitches - 1

\* The condition of both for loops.
LoopCond(k) == k < numSwitches

\* Variants: the scan runs down the table; the index is not reset.
NextIndex_Down(k) == IF k = 0 THEN numSwitches - 1 ELSE k - 1
NextIndex_NoWrap(k) == k + 1

\* i++ in loop(); loop() returns after the last channel and is called again.
NextIndex(k) == IF LoopCond(k + 1) THEN k + 1 ELSE 0

\* Table positions of the switches the operator touches.
UsedChannels ==
  {k \in Channels : k < MaxSwitchesUsed - 1} \cup {numSwitches - 1}

UsedPins == {switchPins(k) : k \in UsedChannels}

\* Pin levels at power-on: any of the used switches may be held down; the
\* pull-ups keep every other pin HIGH.
PowerOnPins ==
  {[p \in PinNumbers |-> IF p \in held THEN LOW ELSE HIGH] :
     held \in SUBSET UsedPins}

\* History helpers.
Push(h, x) == IF Len(h) < 2 THEN Append(h, x) ELSE Append(Tail(h), x)
Min(a, b) == IF a < b THEN a ELSE b

\* The history after the scan of channel k that read st and wrote (or not).
ScanHistory(k, st, wrote) ==
  /\ reads' = [reads EXCEPT ![k] = Push(@, st)]
  /\ fired' = [fired EXCEPT ![k] = Push(@, wrote)]
  /\ runEmits' = [runEmits EXCEPT ![k] =
                    IF st = HIGH THEN 0
                    ELSE IF wrote THEN Min(@ + 1, 2) ELSE @]
  /\ edges' = IF wrote THEN edges + 1 ELSE edges
  /\ sampled' = [sampled EXCEPT ![k] =
                   IF st = LOW /\ (reads[k] = <<>> \/ reads[k][Len(reads[k])] = HIGH)
                     THEN @ + 1 ELSE @]
  /\ UNCHANGED <<lateDown, presses, heldAtPowerOn>>

\* The history when the iteration of channel k ends: loop() returns after the
\* last channel, which ends the cycle.
EndOfIteration(k) ==
  IF NextIndex(k) = 0
    THEN cycleOut' = <<>> /\ together' = <<>>
    ELSE UNCHANGED <<cycleOut, together>>

Init ==
  /\ pc = "begin"
  /\ i = 0
  /\ state = NoLevel
  /\ prevStates = [k \in Channels |-> 0]   \* a global int array: zeroed
  /\ baud = 0
  /\ serial = <<>>
  /\ pins \in PowerOnPins
  /\ toggles = 0
  /\ reads = [k \in Channels |-> <<>>]
  /\ fired = [k \in Channels |-> <<>>]
  /\ runEmits = [k \in Channels |-> 0]
  /\ edges = 0
  /\ cycleOut = <<>>
  /\ lateDown = [p \in PinNumbers |-> FALSE]
  /\ together = <<>>
  /\ dropped = {}
  /\ sampled = [k \in Channels |-> 0]
  /\ presses = [p \in PinNumbers |-> 0]
  /\ heldAtPowerOn = {p \in PinNumbers : pins[p] = LOW}

\* setup(): Serial.begin(9600)
SerialBegin ==
  /\ pc = "begin"
  /\ baud' = BaudRate
  /\ pc' = "setup"
  /\ i' = 0
  /\ UNCHANGED <<state, prevStates, serial, env, hist>>

\* Variant: setup() takes the pin's level as the first previous state.
SetupChannel_ReadPin ==
  /\ pc = "setup"
  /\ LoopCond(i)
  /\ prevStates' = [prevStates EXCEPT ![i] = digitalRead(switchPins(i))]
  /\ i' = i + 1
  /\ UNCHANGED <<pc, state, baud, serial, env, hist>>

\* setup(): one iteration of the for loop (pinMode does not touch the model's
\* state: the pull-up only fixes the idle level as HIGH).
SetupChannel ==
  /\ pc = "setup"
  /\ LoopCond(i)
  /\ prevStates' = [prevStates EXCEPT ![i] = HIGH]
  /\ i' = i + 1
  /\ UNCHANGED <<pc, state, baud, serial, env, hist>>

\* Variant: setup() without the Serial.println.
SetupPrintln_Missing ==
  /\ pc = "setup"
  /\ ~LoopCond(i)
  /\ pc' = "scan"
  /\ i' = 0
  /\ UNCHANGED <<state, prevStates, baud, serial, env, hist>>

\* setup(): Serial.println after the for loop; loop() is entered next.
SetupPrintln ==
  /\ pc = "setup"
  /\ ~LoopCond(i)
  /\ serial' = SerialPrintln(serial, ReadyMessage)
  /\ pc' = "scan"
  /\ i' = 0
  /\ UNCHANGED <<state, prevStates, baud, env, hist>>

\* Variant: the index is advanced before the store.
ScanNoEdge_StoreNext ==
  /\ pc = "scan"
  /\ LET st == digitalRead(switchPins(i)) IN
       /\ ~IsPressEdge(st, prevStates[i])
       /\ prevStates' = [prevStates EXCEPT ![NextIndex(i)] = st]
       /\ ScanHistory(i, st, FALSE)
  /\ dropped' = dropped \ {i}
  /\ i' = NextIndex(i)
  /\ EndOfIteration(i)
  /\ UNCHANGED <<pc, state, baud, serial, env>>

\* loop(): an iteration that finds no press edge: read, store, next channel.
ScanNoEdge ==
  /\ pc = "scan"
  /\ LET st == digitalRead(switchPins(i)) IN
       /\ ~IsPressEdge(st, prevStates[i])
       /\ prevStates' = [prevStates EXCEPT ![i] = st]
       /\ ScanHistory(i, st, FALSE)
  /\ dropped' = dropped \ {i}
  /\ i' = NextIndex(i)
  /\ EndOfIteration(i)
  /\ UNCHANGED <<pc, state, baud, serial, env>>

\* loop(): an iteration that finds a press edge, up to the call of delay().
ScanEdge ==
  /\ pc = "scan"
  /\ LET st == digitalRead(switchPins(i)) IN
       /\ IsPressEdge(st, prevStates[i])
       /\ state' = st
       /\ ScanHistory(i, st, TRUE)
  /\ serial' = SerialPrint(serial, letters(i))
  /\ \E accepted \in BOOLEAN :   \* the link takes the byte or drops it
       dropped' = IF accepted THEN dropped \ {i} ELSE dropped \cup {i}
  /\ cycleOut' = Append(cycleOut, i)
  /\ pc' = "delay"
  /\ UNCHANGED <<i, prevStates, baud, env, together>>

\* Variant: the store is skipped on the path that wrote a byte.
DelayEnd_NoStore ==
  /\ pc = "delay"
  /\ state' = NoLevel
  /\ i' = NextIndex(i)
  /\ pc' = "scan"
  /\ EndOfIteration(i)
  /\ UNCHANGED <<prevStates, baud, serial, env, reads, fired, runEmits,
                 edges, lateDown, dropped, sampled, presses, heldAtPowerOn>>

\* Variant: a byte the link dropped leaves the previous state untouched, so
\* that the press is sent again.
DelayEnd_RetryDropped ==
  /\ pc = "delay"
  /\ prevStates' = IF i \in dropped THEN prevStates
                   ELSE [prevStates EXCEPT ![i] = state]
  /\ state' = NoLevel
  /\ i' = NextIndex(i)
  /\ pc' = "scan"
  /\ EndOfIteration(i)
  /\ UNCHANGED <<baud, serial, env, reads, fired, runEmits, edges, lateDown,
                 dropped, sampled, presses, heldAtPowerOn>>

\* Variant: the pin is read again after the delay and that level is stored.
DelayEnd_Reread ==
  /\ pc = "delay"
  /\ prevStates' = [prevStates EXCEPT ![i] = digitalRead(switchPins(i))]
  /\ state' = NoLevel
  /\ i' = NextIndex(i)
  /\ pc' = "scan"
  /\ EndOfIteration(i)
  /\ UNCHANGED <<baud, serial, env, reads, fired, runEmits, edges, lateDown,
                 dropped, sampled, presses, heldAtPowerOn>>

\* Variant: loop() returns after the delay, so the cycle starts over.
DelayEnd_Restart ==
  /\ pc = "delay"
  /\ prevStates' = [prevStates EXCEPT ![i] = state]
  /\ state' = NoLevel
  /\ i' = 0
  /\ pc' = "scan"
  /\ cycleOut' = <<>> /\ together' = <<>>
  /\ UNCHANGED <<baud, serial, env, reads, fired, runEmits, edges, lateDown,
                 dropped, sampled, presses, heldAtPowerOn>>

\* loop(): delay(1000) returns; the iteration ends with the store.
DelayEnd ==
  /\ pc = "delay"
  /\ prevStates' = [prevStates EXCEPT ![i] = state]
  /\ state' = NoLevel
  /\ i' = NextIndex(i)
  /\ pc' = "scan"
  /\ EndOfIteration(i)
  /\ UNCHANGED <<baud, serial, env, reads, fired, runEmits, edges, lateDown,
                 dropped, sampled, presses, heldAtPowerOn>>

\* Environment: the switch on pin p is pressed or released. What happens to
\* the pins before loop() first runs is covered by PowerOnPins: setup() reads
\* no pin.
Toggle(p) ==
  /\ pc \in {"scan", "delay"}
  /\ toggles < MaxToggles
  /\ pins' = [pins EXCEPT ![p] = IF @ = HIGH THEN LOW ELSE HIGH]
  /\ toggles' = toggles + 1
  /\ lateDown' = [lateDown EXCEPT ![p] = pins[p] = HIGH /\ pc = "delay"]
  /\ presses' = [presses EXCEPT ![p] = IF pins[p] = HIGH THEN @ + 1 ELSE @]
  /\ UNCHANGED <<prog, reads, fired, runEmits, edges, cycleOut, together,
                 dropped, sampled, heldAtPowerOn>>

\* Environment: the switches of table positions a < b, both released and both
\* idle in prevStates, are pressed at the same instant during a scan cycle.
PressTogether(a, b) ==
  /\ a < b
  /\ pc \in {"scan", "delay"}
  /\ toggles + 2 <= MaxToggles
  /\ pins[switchPins(a)] = HIGH /\ pins[switchPins(b)] = HIGH
  /\ prevStates[a] = HIGH /\ prevStates[b] = HIGH
  /\ pins' = [pins EXCEPT ![switchPins(a)] = LOW, ![switchPins(b)] = LOW]
  /\ toggles' = toggles + 2
  /\ lateDown' = [lateDown EXCEPT ![switchPins(a)] = pc = "delay",
                                  ![switchPins(b)] = pc = "delay"]
  /\ together' = <<a, b>>
  /\ presses' = [presses EXCEPT ![switchPins(a)] = @ + 1,
                                ![switchPins(b)] = @ + 1]
  /\ UNCHANGED <<prog, reads, fired, runEmits, edges, cycleOut,
                 dropped, sampled, heldAtPowerOn>>

Next ==
  \/ SerialBegin
  \/ SetupChannel
  \/ SetupPrintln
  \/ ScanNoEdge
  \/ ScanEdge
  \/ DelayEnd
  \/ \E p \in UsedPins : Toggle(p)
  \/ \E a, b \in UsedChannels : PressTogether(a, b)

Spec == Init /\ [][Next]_vars

\* A step of the sketch. The microcontroller always executes its next
\* instruction and delay(1000) returns after a second.
ProgStep ==
  \/ SerialBegin
  \/ SetupChannel
  \/ SetupPrintln
  \/ ScanNoEdge
  \/ ScanEdge
  \/ DelayEnd

FairSpec == Spec /\ WF_vars(ProgStep)

\* ------------------------------------------------------------ properties
LastOf(h) == h[Len(h)]

\* This step is the scan of channel k by loop() (not a step of the switches).
ScanStep(k) == pc = "scan" /\ i = k /\ pins' = pins

\* The level read by the scan of channel k that this step performs.
ReadNow(k) == LastOf(reads'[k])

\* The bytes written after the readiness message.
SymbolBytes == SubSeq(serial, Len(ReadyMessage) + 1, Len(serial))

\* How many times byte c occurs in h.
CountOf(h, c) == Cardinality({n \in 1 .. Len(h) : h[n] = c})

\* a occurs before b in h.
InOrder(h, a, b) ==
  \E m, n \in 1 .. Len(h) : m < n /\ h[m] = a /\ h[n] = b

\* C1: for two consecutive scans of a channel, the second writes exactly the
\* channel's symbol when the readings went HIGH -> LOW, and writes nothing
\* otherwise; the delay and the store that end the scan write nothing.
C1_EdgeEmitsOnce ==
  [][ /\ \A k \in Channels :
           (ScanStep(k) /\ reads[k] # <<>>) =>
             IF LastOf(reads[k]) = HIGH /\ ReadNow(k) = LOW
               THEN serial' = Append(serial, letters(k))
               ELSE serial' = serial
      /\ pc = "delay" => serial' = serial ]_vars

\* A second or later scan of a channel has just written its symbol.
C1_Witness ==
  pc = "delay" /\ reads[i] = <<HIGH, LOW>> /\ fired[i] = <<FALSE, TRUE>>

\* C2: while a channel is read LOW on consecutive scans, however many, its
\* symbol has been written exactly once in that run of scans, and never by a
\* scan that follows a LOW reading.
C2_HeldEmitsOnce ==
  \A k \in Channels :
    /\ (reads[k] # <<>> /\ LastOf(reads[k]) = LOW) => runEmits[k] = 1
    /\ (Len(reads[k]) = 2 /\ reads[k][1] = LOW /\ reads[k][2] = LOW)
         => ~fired[k][2]

\* A channel read LOW on at least two consecutive scans, one byte written.
C2_Witness ==
  \E k \in Channels :
    reads[k] = <<LOW, LOW>> /\ runEmits[k] = 1 /\ pc = "scan"

\* C3 as stated: nothing is read or written during the delay, and a press
\* that began inside a delay window never produces a byte, not even later.
C3_Original ==
  [][ /\ pc = "delay" => (reads' = reads /\ serial' = serial)
      /\ \A k \in Channels :
           (ScanStep(k) /\ lateDown[switchPins(k)]) => serial' = serial ]_vars

\* C3 amended: nothing is read or written during the delay; a byte is only
\* ever written for a switch that is down when its channel is scanned
\* (nothing is queued); and a press that began inside a delay window on a
\* channel whose previous state is idle is written when its channel is next
\* scanned, if it is still held then.
C3_DelayWindow ==
  [][ /\ pc = "delay" => (reads' = reads /\ fired' = fired /\ serial' = serial)
      /\ (pc = "scan" /\ serial' # serial) =>
           /\ pins[switchPins(i)] = LOW
           /\ serial' = Append(serial, letters(i))
      /\ \A k \in Channels :
           (ScanStep(k) /\ lateDown[switchPins(k)] /\ prevStates[k] = HIGH)
             => serial' = Append(serial, letters(k)) ]_vars

\* The channel whose symbol was just written was pressed inside a delay.
C3_Witness == pc = "delay" /\ lateDown[switchPins(i)]

\* C4 as stated: for a < b pressed at the same instant in a scan cycle (both
\* idle in prevStates), b's symbol is not written in that cycle unless a's
\* was written before it, and when the cycle ends both were written in it,
\* a before b.
C4_Original ==
  [][ \A a, b \in Channels :
        /\ (ScanStep(b) /\ together = <<a, b>> /\ serial' # serial)
             => InOrder(cycleOut', a, b)
        /\ ( /\ together = <<a, b>>
             /\ pc \in {"scan", "delay"} /\ pc' = "scan"
             /\ i = numSwitches - 1 /\ i' = 0 )
           => InOrder(cycleOut, a, b) ]_vars

\* C4 amended: when a < b were pressed at the same instant (both idle in
\* prevStates) and both are read LOW by their scans of that cycle, the scan of
\* b writes b's symbol and a's symbol was written before it in the same cycle.
C4_TogetherInOrder ==
  [][ \A a, b \in Channels :
        ( /\ ScanStep(b)
          /\ together = <<a, b>>
          /\ reads[a] # <<>> /\ LastOf(reads[a]) = LOW
          /\ ReadNow(b) = LOW )
        => /\ serial' = Append(serial, letters(b))
           /\ InOrder(cycleOut', a, b)
           /\ InOrder(SubSeq(serial', Len(serial') - Len(cycleOut') + 1,
                             Len(serial')), letters(a), letters(b)) ]_vars

\* Both symbols of a simultaneous press written in one cycle, in table order.
C4_Witness ==
  /\ pc = "delay"
  /\ Len(together) = 2
  /\ i = together[2]
  /\ InOrder(cycleOut, together[1], together[2])

\* C5: after its symbol was written, a channel read LOW again without an idle
\* reading writes nothing; a LOW reading that follows an idle reading writes
\* the symbol; press, release, press on three consecutive scans writes the
\* symbol on the first and third scan only.
C5_Rearm ==
  [][ \A k \in Channels :
        /\ (ScanStep(k) /\ runEmits[k] >= 1 /\ ReadNow(k) = LOW)
             => serial' = serial
        /\ (ScanStep(k) /\ reads[k] # <<>> /\ LastOf(reads[k]) = HIGH
              /\ ReadNow(k) = LOW)
             => serial' = Append(serial, letters(k))
        /\ (ScanStep(k) /\ reads[k] = <<LOW, HIGH>> /\ fired[k][1]
              /\ ReadNow(k) = LOW)
             => /\ fired[k] = <<TRUE, FALSE>>
                /\ fired'[k] = <<FALSE, TRUE>>
                /\ serial' = Append(serial, letters(k)) ]_vars

\* Press, release, press seen on the first three scans: two bytes.
C5_Witness ==
  /\ pc = "delay"
  /\ reads[i] = <<HIGH, LOW>>
  /\ fired[i] = <<FALSE, TRUE>>
  /\ Len(serial) >= Len(ReadyMessage)
  /\ CountOf(SymbolBytes, letters(i)) = 2

\* C6: a scan that reads HIGH writes nothing, whatever the previous state.
C6_ReleaseSilent ==
  [][ \A k \in Channels :
        (ScanStep(k) /\ ReadNow(k) = HIGH) => serial' = serial ]_vars

\* A release was scanned right after the scan that wrote the symbol.
C6_Witness ==
  \E k \in Channels :
    reads[k] = <<LOW, HIGH>> /\ fired[k] = <<TRUE, FALSE>> /\ prevStates[k] = HIGH

\* Number of places of out at which the readiness message starts.
ReadyCount(out) ==
  Cardinality({n \in 1 .. Len(out) :
                 /\ n + Len(ReadyMessage) - 1 <= Len(out)
                 /\ SubSeq(out, n, n + Len(ReadyMessage) - 1) = ReadyMessage})

\* C7: nothing is written before setup() writes the readiness message; once
\* loop() runs the output starts with the message and holds it exactly once.
C7_ReadyOnce ==
  /\ pc \in {"begin", "setup"} => serial = <<>>
  /\ pc \in {"scan", "delay"} =>
       /\ Len(serial) >= Len(ReadyMessage)
       /\ SubSeq(serial, 1, Len(ReadyMessage)) = ReadyMessage
       /\ ReadyCount(serial) = 1

\* A second cycle is under way and symbols were written.
C7_Witness ==
  /\ pc = "scan"
  /\ Len(reads[0]) = 2
  /\ Len(serial) > Len(ReadyMessage)

\* C8: when loop() has not read any pin yet, all 20 entries of prevStates
\* are HIGH.
C8_InitialIdle ==
  (pc = "scan" /\ \A k \in Channels : reads[k] = <<>>) =>
    /\ Cardinality(DOMAIN prevStates) = 20
    /\ \A k \in Channels : prevStates[k] = HIGH

\* setup() is done, no pin was read, and a switch is held down.
C8_Witness ==
  /\ pc = "scan"
  /\ \A k \in Channels : reads[k] = <<>>
  /\ \E k \in Channels : pins[switchPins(k)] = LOW

\* The pin list as the claim gives it: 0-9, A5, A4, A3, A2, A1, A0.
ClaimedPins == <<0, 1, 2, 3, 4, 5, 6, 7, 8, 9, A5, A4, A3, A2, A1, A0>>

\* The pin list the table pairs with the 20 symbols: 0-13, A5 .. A0.
ExpectedPins ==
  <<0, 1, 2, 3, 4, 5, 6, 7, 8, 9, 10, 11, 12, 13, A5, A4, A3, A2, A1, A0>>

\* a,w,s,e,d,c,r,f,t,g,b,h,n,m,j,i,k,o,l,p
ExpectedSymbols ==
  <<97, 119, 115, 101, 100, 99, 114, 102, 116, 103,
    98, 104, 110, 109, 106, 105, 107, 111, 108, 112>>

\* C9 as stated: the table has 20 entries, and the channel that loop() scans
\* at position i pairs the i-th pin of the list 0-9, A5 .. A0 with the i-th
\* symbol.
C9_Original ==
  pc = "scan" =>
    /\ Len(switchPinsTable) = 20 /\ Len(lettersTable) = 20
    /\ i + 1 <= Len(ClaimedPins)
    /\ switchPins(i) = ClaimedPins[i + 1]
    /\ letters(i) = ExpectedSymbols[i + 1]

\* C9 amended: 20 entries pairing the pins 0-13, A5 .. A0 with the symbols
\* a .. p in order; a byte written by the scan of position k is the k-th
\* symbol, written while the k-th pin is LOW (first pin 0 -> 'a', last pin
\* A0 -> 'p').
C9_TableMapping ==
  [][ /\ numSwitches = 20
      /\ Len(switchPinsTable) = 20 /\ Len(lettersTable) = 20
      /\ \A k \in Channels : switchPins(k) = ExpectedPins[k + 1]
      /\ \A k \in Channels : letters(k) = ExpectedSymbols[k + 1]
      /\ \A k \in Channels :
           (ScanStep(k) /\ serial' # serial) =>
             /\ serial' = Append(serial, ExpectedSymbols[k + 1])
             /\ pins[ExpectedPins[k + 1]] = LOW ]_vars

\* The last channel (pin A0) has just written 'p'.
C9_Witness ==
  /\ pc = "delay"
  /\ i = numSwitches - 1
  /\ pins[A0] = LOW
  /\ LastOf(serial) = 112

\* C10: before the readiness message nothing is written; afterwards the
\* output is the message followed only by table symbols, as many as press
\* edges were detected.
C10_StreamShape ==
  /\ pc \in {"begin", "setup"} => (serial = <<>> /\ edges = 0)
  /\ pc \in {"scan", "delay"} =>
       /\ Len(serial) = Len(ReadyMessage) + edges
       /\ SubSeq(serial, 1, Len(ReadyMessage)) = ReadyMessage
       /\ \A n \in 1 .. Len(SymbolBytes) :
            \E k \in Channels : SymbolBytes[n] = letters(k)

\* Two press edges detected, two symbol bytes after the message.
C10_Witness ==
  /\ pc = "scan"
  /\ edges = 2
  /\ Len(SymbolBytes) = 2
\* C11: what the link does with a byte changes nothing in the sketch: the
\* scan that writes goes on into the delay with prevStates untouched, the end
\* of the delay stores LOW and moves on, a channel whose byte was dropped and
\* that is read LOW again writes nothing, and no other position exists.
C11_TransportBlind ==
  [][ /\ \A k \in Channels :
           /\ (ScanStep(k) /\ serial' # serial) =>
                /\ pc' = "delay" /\ i' = k /\ state' = LOW
                /\ prevStates' = prevStates
           /\ (pc = "delay" /\ i = k /\ pins' = pins) =>
                /\ pc' = "scan" /\ i' = NextIndex(k)
                /\ prevStates' = [prevStates EXCEPT ![k] = LOW]
                /\ serial' = serial
           /\ (ScanStep(k) /\ k \in dropped /\ ReadNow(k) = LOW) =>
                serial' = serial
      /\ pc' \in {"begin", "setup", "scan", "delay"} ]_vars

\* The byte of a channel was dropped, its previous state is pressed all the
\* same, and the switch is still down when the channel is scanned again.
C11_Witness ==
  /\ pc = "scan"
  /\ i \in dropped
  /\ prevStates[i] = LOW
  /\ pins[switchPins(i)] = LOW

\* C12: outside the delay, the previous state of every channel scanned so far
\* is the level its last scan read; the store after the delay writes the level
\* read before the delay, whatever the pin's level is by then.
C12_StoreIsReading ==
  [][ /\ \A k \in Channels :
           (reads'[k] # <<>> /\ ~(pc' = "delay" /\ i' = k))
             => prevStates'[k] = LastOf(reads'[k])
      /\ (pc = "delay" /\ pins' = pins) =>
           prevStates'[i] = LastOf(reads[i]) /\ prevStates'[i] = LOW ]_vars

\* A switch released during its own delay: stored pressed, pin idle.
C12_Witness ==
  \E k \in Channels :
    /\ pc = "scan" /\ i = NextIndex(k)
    /\ fired[k] # <<>> /\ LastOf(fired[k])
    /\ prevStates[k] = LOW
    /\ pins[switchPins(k)] = HIGH

\* h is strictly increasing.
Increasing(h) == \A m, n \in 1 .. Len(h) : m < n => h[m] < h[n]

\* C13: a scan is followed by the next table position (or by its own delay);
\* what a scan writes is fixed by the level it reads and the previous state;
\* the positions written in a cycle are strictly increasing, at most 20, all
\* at or before the scan position, and are the last bytes of the output.
C13_TableOrder ==
  [][ /\ \A k \in Channels :
           ScanStep(k) =>
             /\ pc' = "delay" => i' = k
             /\ pc' = "scan" => i' = (IF k = numSwitches - 1 THEN 0 ELSE k + 1)
             /\ serial' = IF ReadNow(k) = LOW /\ prevStates[k] = HIGH
                            THEN Append(serial, letters(k)) ELSE serial
      /\ Increasing(cycleOut')
      /\ Len(cycleOut') <= numSwitches
      /\ \A n \in 1 .. Len(cycleOut') :
           /\ cycleOut'[n] <= i'
           /\ serial'[Len(serial') - Len(cycleOut') + n] = letters(cycleOut'[n])
    ]_vars

\* The second symbol of a cycle has just been written.
C13_Witness == Len(cycleOut) = 2 /\ pc = "delay" /\ i = cycleOut[2]

\* C14: during the delay no pin is read, nothing is written and prevStates
\* does not change; the step that ends the delay stores the level of the
\* channel and goes on with the next position, or with position 0 after the
\* last one.
C14_DelayStalls ==
  [][ pc = "delay" =>
        /\ reads' = reads /\ serial' = serial
        /\ pins' # pins => (prevStates' = prevStates /\ pc' = "delay" /\ i' = i)
        /\ pins' = pins =>
             /\ prevStates' = [prevStates EXCEPT ![i] = LOW]
             /\ pc' = "scan"
             /\ i' = (IF i = numSwitches - 1 THEN 0 ELSE i + 1) ]_vars

\* The scan went on with the channel after the one that was just written,
\* while a switch changed during that delay.
C14_Witness ==
  /\ pc = "scan"
  /\ i >= 1
  /\ cycleOut # <<>> /\ LastOf(cycleOut) = i - 1
  /\ \E p \in PinNumbers : lateDown[p]

\* C15: a step of loop() at position i leaves every other entry of prevStates
\* alone, keeps the 20 channels, and leaves the baud rate alone.
C15_Frame ==
  [][ (pc \in {"scan", "delay"} /\ pins' = pins) =>
        /\ \A j \in Channels : j # i => prevStates'[j] = prevStates[j]
        /\ DOMAIN prevStates' = 0 .. 19
        /\ baud' = baud ]_vars

\* One entry of prevStates went LOW, all others are as setup() left them.
C15_Witness ==
  /\ pc = "scan"
  /\ \E k \in Channels :
       /\ prevStates[k] = LOW
       /\ \A j \in Channels : j # k => prevStates[j] = HIGH

\* Channel k is owed a byte: idle in prevStates, switch down, not yet written.
Owed(k) ==
  /\ prevStates[k] = HIGH
  /\ pins[switchPins(k)] = LOW
  /\ ~(pc = "delay" /\ i = k)

\* C16: the sketch can always take a step; every channel is scanned again and
\* again; a channel that is owed a byte does not stay owed for ever (the
\* channels of the switches nobody touches are never owed one), and it
\* stops being owed only by the release of the switch or by the write of its
\* symbol (so a press that is held is written, also one made during another
\* channel's delay).
C16_Liveness ==
  /\ []ENABLED <<ProgStep>>_vars
  /\ \A k \in Channels : []<>(pc = "scan" /\ i = k)
  /\ \A k \in UsedChannels : []<>(~Owed(k))
  /\ [](\A k \in Channels \ UsedChannels : ~Owed(k))
  /\ [][ \A k \in Channels :
           (Owed(k) /\ ~Owed(k)') =>
             \/ pins'[switchPins(k)] = HIGH
             \/ (pc' = "delay" /\ i' = k
                   /\ serial' = Append(serial, letters(k))) ]_vars

\* A press made during another channel's delay has been written.
C16_Witness ==
  /\ pc = "delay"
  /\ lateDown[switchPins(i)]
  /\ presses[switchPins(i)] >= 1
  /\ Len(SymbolBytes) >= 2

\* C17: the first scan of a channel that reads LOW writes the symbol, also
\* for a switch down since power-on; setup() leaves the previous state of
\* such a channel idle.
C17_PowerOnPress ==
  [][ \A k \in Channels :
        /\ (ScanStep(k) /\ reads[k] = <<>> /\ ReadNow(k) = LOW)
             => serial' = Append(serial, letters(k))
        /\ (pc' = "scan" /\ reads'[k] = <<>>) => prevStates'[k] = HIGH ]_vars

\* A symbol written although no switch was pressed since power-on.
C17_Witness ==
  /\ pc = "delay"
  /\ reads[i] = <<LOW>>
  /\ switchPins(i) \in heldAtPowerOn
  /\ \A p \in PinNumbers : presses[p] = 0

\* The level the scan of k is compared with: the last one read, idle at first.
PrevSample(k) == IF reads[k] = <<>> THEN HIGH ELSE LastOf(reads[k])

\* Bytes written for channel k.
EmitCount(k) == CountOf(SymbolBytes, letters(k))

\* What a step writes depends on the sampled levels only.
SamplesDecide ==
  /\ \A k \in Channels :
       ScanStep(k) =>
         serial' = IF PrevSample(k) = HIGH /\ ReadNow(k) = LOW
                     THEN Append(serial, letters(k)) ELSE serial
  /\ pins' # pins => serial' = serial

\* C18 as stated: only the sampled levels decide; the bytes of a channel are
\* as many as the HIGH -> LOW changes of its samples, and never more than the
\* presses of its switch after power-on.
C18_Original ==
  [][ /\ SamplesDecide
      /\ \A k \in Channels :
           /\ EmitCount(k)' = sampled'[k]
           /\ EmitCount(k)' <= presses'[switchPins(k)] ]_vars

\* C18 amended: the same, the bytes of a channel being never more than the
\* presses of its switch after power-on plus one if it was down at power-on.
C18_SamplesOnly ==
  [][ /\ SamplesDecide
      /\ \A k \in Channels :
           /\ EmitCount(k)' = sampled'[k]
           /\ EmitCount(k)' <= presses'[switchPins(k)]
                + (IF switchPins(k) \in heldAtPowerOn THEN 1 ELSE 0) ]_vars

\* A release and a new press inside the channel's own delay: one byte only.
C18_Witness ==
  \E k \in Channels :
    /\ reads[k] = <<LOW, LOW>>
    /\ lateDown[switchPins(k)]
    /\ presses[switchPins(k)] = 1
    /\ EmitCount(k) = 1

\* C19: prevStates holds only HIGH and LOW; the index is a table position
\* whenever a table is accessed; pins and symbols are pairwise distinct, so a
\* written byte names one channel.
C19_WellFormed ==
  /\ prevStates \in [Channels -> {HIGH, LOW}]
  /\ pc \in {"scan", "delay"} => i \in 0 .. 19
  /\ (pc = "setup" /\ LoopCond(i)) => i \in 0 .. 19
  /\ Cardinality({switchPins(k) : k \in Channels}) = 20
  /\ Cardinality({letters(k) : k \in Channels}) = 20
  /\ \A n \in 1 .. Len(SymbolBytes) :
       Cardinality({k \in Channels : letters(k) = SymbolBytes[n]}) = 1

\* The last table position is being scanned and a byte was written.
C19_Witness ==
  /\ pc = "scan"
  /\ i = numSwitches - 1
  /\ Len(SymbolBytes) >= 1
====
